---- MODULE Spec2Model ----
(***************************************************************************)
(* A model of mms_monthly_cli/mms_monthly.py: the retrying HTTP wrapper,   *)
(* the link scraper and its regular expressions, the memoized catalog      *)
(* functions and the download-and-extract routine.                         *)
(*                                                                         *)
(* Strings are sequences of one-character strings, so that the regular     *)
(* expressions, the path operations and the sort of the source are         *)
(* computed character by character.                                        *)
(***************************************************************************)
EXTENDS Integers, Sequences, FiniteSets, TLC

VARIABLES
    \* _rerequest_to_obtain_soup
    rpc, r, ok, wait, log, soup,
    \* the remote archive and the functools.cache of the catalog functions
    site, ymCache, atCache, nsCache, call, first, changes,
    \* get_and_unzip_table_csv
    dpc, dargs, archive, dirExists, files, dirExists0, files0, getIssued,
    extracted, outcome

retryVars == <<rpc, r, ok, wait, log, soup>>
catVars == <<site, ymCache, atCache, nsCache, call, first, changes>>
dlVars == <<dpc, dargs, archive, dirExists, files, dirExists0, files0, getIssued,
            extracted, outcome>>
vars == <<retryVars, catVars, dlVars>>

(***************************************************************************)
(* Bounds of the model                                                     *)
(***************************************************************************)
\* events (requests and sleeps) recorded of one _rerequest_to_obtain_soup call
MaxLog == 19
\* links on a generated listing page
MaxLinks == 3
\* changes of the remote archive during one process
MaxChanges == 1
\* entries of a downloaded archive
MaxEntries == 2

(***************************************************************************)
(* Characters and strings                                                  *)
(***************************************************************************)
Digits == {"0", "1", "2", "3", "4", "5", "6", "7", "8", "9"}

Upper == {"A", "B", "C", "D", "E", "F", "G", "H", "I", "J", "K", "L", "M",
          "N", "O", "P", "Q", "R", "S", "T", "U", "V", "W", "X", "Y", "Z"}

\* the characters of the model's file and table names, in code point order
AsciiOrder ==
    <<".", "0", "1", "2", "3", "4", "5", "6", "7", "8", "9",
      "A", "B", "C", "D", "E", "F", "G", "H", "I", "J", "K", "L", "M",
      "N", "O", "P", "Q", "R", "S", "T", "U", "V", "W", "X", "Y", "Z", "_",
      "c", "s", "v">>

Ord(c) == CHOOSE i \in 1..Len(AsciiOrder) : AsciiOrder[i] = c

Min(a, b) == IF a <= b THEN a ELSE b

Max(S) == CHOOSE x \in S : \A y \in S : y <= x

\* s[from..] starts with p
StartsAt(s, from, p) ==
    /\ from >= 1
    /\ from + Len(p) - 1 <= Len(s)
    /\ \A k \in 1..Len(p) : s[from + k - 1] = p[k]

AllIn(s, from, to, class) == \A k \in from..to : s[k] \in class

\* Python's str < str: by code point, a proper prefix first
StrLess(a, b) ==
    \E k \in 1..(Min(Len(a), Len(b)) + 1) :
        /\ \A j \in 1..(k - 1) : a[j] = b[j]
        /\ \/ k = Len(a) + 1 /\ k <= Len(b)
           \/ k <= Len(a) /\ k <= Len(b) /\ Ord(a[k]) < Ord(b[k])

\* the sequences over S of length at most n
SeqsUpTo(S, n) == UNION {[1..k -> S] : k \in 0..n}

Range(s) == {s[i] : i \in DOMAIN s}

\* the lists a Python list(set(...)) may produce: every element once, in the
\* iteration order of the set, which the language leaves open
Orderings(S) ==
    {q \in [1..Cardinality(S) -> S] : \A i, j \in DOMAIN q : q[i] = q[j] => i = j}

(***************************************************************************)
(* _rerequest_to_obtain_soup                                               *)
(***************************************************************************)
OK == 200

StatusCodes == {200, 404, 503}

Contents == {"page1", "page2"}

initial_wait == 100

max_wait == 10000

backoff == 2

BeautifulSoup(content) == [parsed |-> content]

NoResponse == [status |-> 0, content |-> "none"]

\* the while condition: (ok := r.status_code == OK) < 1
LoopContinuesGivesUp(okv) == okv < 1 /\ Len(log) < 3

LoopContinues(okv) == okv < 1

NextWait(w) == Min(w * backoff, max_wait)

\* what the call did, in order: a request and its status, a sleep and its length
RequestEvent(resp) == [ev |-> "request", n |-> resp.status]

SleepEvent(w) == [ev |-> "sleep", n |-> w]

InitRetry ==
    /\ rpc = "start"
    /\ r = NoResponse
    /\ ok = 0
    /\ wait = 0
    /\ log = <<>>
    /\ soup = BeautifulSoup("none")

\* r = _request_content(url, additional_header); wait = initial_wait
FirstRequest ==
    /\ rpc = "start"
    /\ \E s \in StatusCodes, c \in Contents :
          /\ r' = [status |-> s, content |-> c]
          /\ log' = Append(log, RequestEvent(r'))
    /\ wait' = initial_wait
    /\ rpc' = "test"
    /\ UNCHANGED <<ok, soup>>
    /\ UNCHANGED <<catVars, dlVars>>

\* while (ok := r.status_code == requests.status_codes.codes["OK"]) < 1:
LoopTest ==
    /\ rpc = "test"
    /\ ok' = IF r.status = OK THEN 1 ELSE 0
    /\ rpc' = IF LoopContinues(ok') THEN "body" ELSE "parse"
    /\ UNCHANGED <<r, wait, log, soup>>
    /\ UNCHANGED <<catVars, dlVars>>

\* r = _request_content(...); if r.status_code == OK: ok += 1
Rerequest ==
    /\ rpc = "body"
    /\ Len(log) < MaxLog
    /\ \E s \in StatusCodes, c \in Contents :
          /\ r' = [status |-> s, content |-> c]
          /\ log' = Append(log, RequestEvent(r'))
          /\ IF s = OK
                THEN ok' = ok + 1 /\ rpc' = "test"
                ELSE ok' = ok /\ rpc' = "sleep"
    /\ UNCHANGED <<wait, soup>>
    /\ UNCHANGED <<catVars, dlVars>>

\* else: sleep(wait); wait = min(wait * backoff, max_wait)
Sleep ==
    /\ rpc = "sleep"
    /\ Len(log) < MaxLog
    /\ log' = Append(log, SleepEvent(wait))
    /\ wait' = NextWait(wait)
    /\ rpc' = "test"
    /\ UNCHANGED <<r, ok, soup>>
    /\ UNCHANGED <<catVars, dlVars>>

\* soup = BeautifulSoup(r.content, "html.parser"); return soup
ReturnSoup ==
    /\ rpc = "parse"
    /\ soup' = BeautifulSoup(r.content)
    /\ rpc' = "done"
    /\ UNCHANGED <<r, ok, wait, log>>
    /\ UNCHANGED <<catVars, dlVars>>

(***************************************************************************)
(* str, int, rjust and Path.name                                           *)
(***************************************************************************)
DigitChars == <<"0", "1", "2", "3", "4", "5", "6", "7", "8", "9">>

RECURSIVE str(_)
str(n) == IF n < 10 THEN <<DigitChars[n + 1]>>
          ELSE str(n \div 10) \o <<DigitChars[(n % 10) + 1]>>

DigitVal(c) == (CHOOSE i \in 1..10 : DigitChars[i] = c) - 1

RECURSIVE int(_)
int(s) == IF Len(s) = 0 THEN 0
          ELSE 10 * int(SubSeq(s, 1, Len(s) - 1)) + DigitVal(s[Len(s)])

\* s.rjust(2, "0")
rjust2(s) == IF Len(s) < 2 THEN [i \in 1..(2 - Len(s)) |-> "0"] \o s ELSE s

\* s.lstrip("_")
RECURSIVE lstrip(_)
lstrip(s) == IF Len(s) > 0 /\ s[1] = "_" THEN lstrip(Tail(s)) ELSE s

\* the last position at or before k that holds a slash (or not one), else 0
RECURSIVE LastAt(_, _, _)
LastAt(s, k, slash) ==
    IF k = 0 \/ (s[k] = "/") = slash THEN k ELSE LastAt(s, k - 1, slash)

\* Path(s).name: the last component, trailing slashes dropped
PathName(s) ==
    LET e == LastAt(s, Len(s), FALSE)
    IN  SubSeq(s, LastAt(s, e, TRUE) + 1, e)

(***************************************************************************)
(* The regular expressions, each matched as re.match does: at the start of *)
(* the string, every star greedy, the leftmost star tried longest first    *)
(***************************************************************************)
NoMatch == [matched |-> FALSE, group |-> <<>>]

Matched(g) == [matched |-> TRUE, group |-> g]

\* match(r".*([0-9]{4}).*", url)
match_year(s) ==
    LET I == {i \in 0..(Len(s) - 4) : AllIn(s, i + 1, i + 4, Digits)}
    IN  IF I = {} THEN NoMatch ELSE Matched(SubSeq(s, Max(I) + 1, Max(I) + 4))

\* match(r".*[0-9]{4}_([0-9]{2})", url)
match_month(s) ==
    LET I == {i \in 0..(Len(s) - 7) :
                /\ AllIn(s, i + 1, i + 4, Digits)
                /\ s[i + 5] = "_"
                /\ AllIn(s, i + 6, i + 7, Digits)}
    IN  IF I = {} THEN NoMatch ELSE Matched(SubSeq(s, Max(I) + 6, Max(I) + 7))

PUBLIC_DVD == <<"P", "U", "B", "L", "I", "C", "_", "D", "V", "D", "_">>

NameChars == Upper \cup Digits \cup {"_"}

\* the tail of the table pattern from position j + 1 on: _[0-9]*.zip
TableTail(s, j) ==
    /\ j + 1 <= Len(s)
    /\ s[j + 1] = "_"
    /\ \E k \in (j + 1)..(Len(s) - 4) :
          /\ AllIn(s, j + 2, k, Digits)
          /\ StartsAt(s, k + 2, <<"z", "i", "p">>)

\* match(".*/PUBLIC_DVD_([A-Z_0-9]*)_[0-9]*.zip", link)
match_table(s) ==
    LET P == <<"/">> \o PUBLIC_DVD
        J(i) == {j \in (i + Len(P))..Len(s) :
                    AllIn(s, i + Len(P) + 1, j, NameChars) /\ TableTail(s, j)}
        I == {i \in 0..Len(s) : StartsAt(s, i + 1, P) /\ J(i) # {}}
    IN  IF I = {} THEN NoMatch
        ELSE Matched(SubSeq(s, Max(I) + Len(P) + 1, Max(J(Max(I)))))

(***************************************************************************)
(* sorted                                                                  *)
(***************************************************************************)
RemoveAt(q, i) == SubSeq(q, 1, i - 1) \o SubSeq(q, i + 1, Len(q))

RECURSIVE sorted(_)
sorted(q) ==
    IF Len(q) = 0 THEN <<>>
    ELSE LET i == CHOOSE i \in 1..Len(q) :
                    /\ \A k \in 1..Len(q) : ~StrLess(q[k], q[i])
                    /\ \A k \in 1..(i - 1) : q[k] # q[i]
         IN  <<q[i]>> \o sorted(RemoveAt(q, i))

(***************************************************************************)
(* Filenames and URLs                                                      *)
(***************************************************************************)
\* "https://www.nemweb.com.au/Data_Archive/Wholesale_Electricity/MMSDM/"
MMSDM_ARCHIVE_URL ==
    <<"h","t","t","p","s",":","/","/","w","w","w",".","n","e","m","w","e","b",".","c","o","m",
      ".","a","u","/","D","a","t","a","_","A","r","c","h","i","v","e","/","W","h","o","l","e",
      "s","a","l","e","_","E","l","e","c","t","r","i","c","i","t","y","/","M","M","S","D","M",
      "/">>

\* data_dir = None
NoDir == <<"None">>

\* prefix + f"_{stryear}{strmonth}010000"
construct_filename(year, month, table) ==
    PUBLIC_DVD \o table \o <<"_">> \o str(year) \o rjust2(str(month))
        \o <<"0", "1", "0", "0", "0", "0">>

construct_yearmonth_url(year, month, data_dir) ==
    LET url == MMSDM_ARCHIVE_URL \o str(year) \o <<"/","M","M","S","D","M","_">>
                 \o str(year) \o <<"_">> \o rjust2(str(month))
                 \o <<"/","M","M","S","D","M","_","H","i","s","t","o","r","i","c","a","l",
                      "_","D","a","t","a","_","S","Q","L","L","o","a","d","e","r","/">>
    IN  IF data_dir # NoDir THEN url \o data_dir \o <<"/">> ELSE url

construct_table_url(year, month, data_dir, table) ==
    construct_yearmonth_url(year, month, data_dir)
        \o construct_filename(year, month, table) \o <<".", "z", "i", "p">>

(***************************************************************************)
(* The remote archive. site.root holds the links of the archive root,      *)
(* site.year[y] those of year y's index, site.month those of every         *)
(* year-month listing, site.dir[d] those of every listing of subdirectory  *)
(* d, and site.length the Content-Length of every table archive.           *)
(***************************************************************************)
\* the groups of the match results that matched, in their order
Captures(matches) ==
    LET F[i \in 0..Len(matches)] ==
            IF i = 0 THEN <<>>
            ELSE IF matches[i].matched THEN Append(F[i - 1], matches[i].group)
                 ELSE F[i - 1]
    IN  F[Len(matches)]

(***************************************************************************)
(* functools.cache: a mapping from the argument tuple to the result        *)
(***************************************************************************)
EmptyCache == <<>>

CacheNeverHits(cache, key) == FALSE

CacheHit(cache, key) == key \in DOMAIN cache

Store(cache, key, v) ==
    [k \in DOMAIN cache \cup {key} |-> IF k = key THEN v ELSE cache[k]]

(***************************************************************************)
(* get_years_and_months                                                    *)
(***************************************************************************)
\* months.append(int(month)) for every link that matches
months_of(links) ==
    LET found == Captures([i \in DOMAIN links |-> match_month(links[i])])
    IN  [i \in DOMAIN found |-> int(found[i])]

months_not_deduplicated(months) == {months}

\* unique = list(set(months)): the lists it may be
unique_months(months) == Orderings(Range(months))

\* year = int(findyear.group(1)) for every link of the root that matches
years_of(links) ==
    LET found == Captures([i \in DOMAIN links |-> match_year(links[i])])
    IN  [i \in DOMAIN found |-> int(found[i])]

\* the mappings get_years_and_months may compute from the site
years_and_months(s) ==
    LET Ys == Range(years_of(s.root))
        L(y) == unique_months(months_of(s.year[y]))
    IN  {ym \in [Ys -> UNION {L(y) : y \in Ys}] : \A y \in Ys : ym[y] \in L(y)}

\* get_years_and_months() through its cache: the results, each with the cache
\* after the call and the number of requests the call issued
YM_Eval(s, ymc) ==
    IF CacheHit(ymc, <<>>)
    THEN {[result |-> ymc[<<>>], ymc |-> ymc, fetches |-> 0]}
    ELSE {[result |-> ym, ymc |-> Store(ymc, <<>>, ym),
           fetches |-> 1 + Len(years_of(s.root))] : ym \in years_and_months(s)}

(***************************************************************************)
(* _get_all_links_from_soup, _validate_data_dir, _get_table_names,         *)
(* get_available_tables, get_table_names_and_sizes                         *)
(***************************************************************************)
\* year in available_years_and_months.keys() and month in ...[year]
PeriodAvailable(ym, year, month) ==
    year \in DOMAIN ym /\ month \in Range(ym[year])

\* links = [Path(link).name for link in links]; data_dir in links
DataDirListed(links, data_dir) ==
    data_dir \in Range([i \in DOMAIN links |-> PathName(links[i])])

\* name = mo.group(1).lstrip("_") for every link that matches
table_names_of(links) ==
    LET found == Captures([i \in DOMAIN links |-> match_table(links[i])])
    IN  [i \in DOMAIN found |-> lstrip(found[i])]

unsorted_names(names) == names

\* return sorted(names)
sorted_names(names) == sorted(names)

\* the body of get_available_tables: the outcomes, each with the cache of
\* get_years_and_months after the call and the number of requests issued
AT_Compute(s, ymc, year, month, data_dir) ==
    UNION {
        IF ~PeriodAvailable(e.result, year, month)
        THEN {[raised |-> "period", result |-> <<>>, ymc |-> e.ymc,
               fetches |-> e.fetches]}
        ELSE IF ~DataDirListed(s.month, data_dir)
        THEN {[raised |-> "data_dir", result |-> <<>>, ymc |-> e.ymc,
               fetches |-> e.fetches + 1]}
        ELSE {[raised |-> "", result |-> sorted_names(names), ymc |-> e.ymc,
               fetches |-> e.fetches + 2] :
                 names \in Orderings(Range(table_names_of(s.dir[data_dir])))}
        : e \in YM_Eval(s, ymc)}

\* the body of get_table_names_and_sizes; a subdirectory that has no listing
\* is requested forever, and the call does not return
NS_Compute(s, ymc, year, month, data_dir) ==
    UNION {
        IF ~PeriodAvailable(e.result, year, month)
        THEN {[raised |-> "period", result |-> <<>>, ymc |-> e.ymc,
               fetches |-> e.fetches]}
        ELSE IF data_dir \notin DOMAIN s.dir THEN {}
        ELSE LET names == table_names_of(s.dir[data_dir])
             IN  {[raised |-> "", result |-> [n \in Range(names) |-> s.length],
                   ymc |-> e.ymc, fetches |-> e.fetches + 1 + Len(names)]}
        : e \in YM_Eval(s, ymc)}

\* the last call of a catalog function: whether its arguments had returned a
\* result before, the requests it issued, its outcome, and the number of changes
\* of the remote archive before it
NoCall == [fn |-> "none", key |-> <<>>, seen |-> FALSE, fetches |-> 0,
           raised |-> "", result |-> <<>>, epoch |-> 0]

CallRecord(fn, key, o) ==
    [fn |-> fn, key |-> key, seen |-> <<fn, key>> \in DOMAIN first,
     fetches |-> o.fetches, raised |-> o.raised, result |-> o.result,
     epoch |-> changes]

\* the first result each call returned, the call of get_years_and_months
\* inside another call included
RememberIn(f, fn, key, result) ==
    IF <<fn, key>> \notin DOMAIN f THEN Store(f, <<fn, key>>, result) ELSE f

Remember(fn, key, o, ymc) ==
    LET f == IF o.raised = "" THEN RememberIn(first, fn, key, o.result) ELSE first
    IN  IF <<>> \in DOMAIN ymc
        THEN RememberIn(f, "get_years_and_months", <<>>, ymc[<<>>]) ELSE f

GetYearsAndMonths ==
    /\ \E e \in YM_Eval(site, ymCache) :
          LET o == [raised |-> "", result |-> e.result, fetches |-> e.fetches]
          IN  /\ ymCache' = e.ymc
              /\ call' = CallRecord("get_years_and_months", <<>>, o)
              /\ first' = Remember("get_years_and_months", <<>>, o, e.ymc)
    /\ UNCHANGED <<site, atCache, nsCache, changes>>
    /\ UNCHANGED <<retryVars, dlVars>>

\* get_available_tables(year, month, data_dir) through its cache: the outcomes,
\* each with both caches after the call
AT_Eval(s, ymc, atc, key) ==
    IF CacheHit(atc, key)
    THEN {[raised |-> "", result |-> atc[key], ymc |-> ymc, atc |-> atc, fetches |-> 0]}
    ELSE {[raised |-> o.raised, result |-> o.result, ymc |-> o.ymc,
           atc |-> IF o.raised = "" THEN Store(atc, key, o.result) ELSE atc,
           fetches |-> o.fetches] : o \in AT_Compute(s, ymc, key[1], key[2], key[3])}

GetAvailableTables(key) ==
    /\ \E o \in AT_Eval(site, ymCache, atCache, key) :
          /\ ymCache' = o.ymc
          /\ atCache' = o.atc
          /\ call' = CallRecord("get_available_tables", key, o)
          /\ first' = Remember("get_available_tables", key, o, o.ymc)
    /\ UNCHANGED <<site, nsCache, changes>>
    /\ UNCHANGED <<retryVars, dlVars>>

GetTableNamesAndSizes(key) ==
    /\ IF CacheHit(nsCache, key)
       THEN LET o == [raised |-> "", result |-> nsCache[key], fetches |-> 0]
            IN  /\ call' = CallRecord("get_table_names_and_sizes", key, o)
                /\ first' = Remember("get_table_names_and_sizes", key, o, ymCache)
                /\ UNCHANGED <<ymCache, nsCache>>
       ELSE \E o \in NS_Compute(site, ymCache, key[1], key[2], key[3]) :
                /\ ymCache' = o.ymc
                /\ nsCache' = IF o.raised = "" THEN Store(nsCache, key, o.result)
                              ELSE nsCache
                /\ call' = CallRecord("get_table_names_and_sizes", key, o)
                /\ first' = Remember("get_table_names_and_sizes", key, o, o.ymc)
    /\ UNCHANGED <<site, atCache, changes>>
    /\ UNCHANGED <<retryVars, dlVars>>

(***************************************************************************)
(* The sites of the model. The hrefs are the paths of the archive's URLs.  *)
(***************************************************************************)
\* "/Data_Archive/Wholesale_Electricity/MMSDM/"
ArchivePath == SubSeq(MMSDM_ARCHIVE_URL, 26, Len(MMSDM_ARCHIVE_URL))

\* "/Data_Archive/Wholesale_Electricity/"
ParentOfRoot == SubSeq(ArchivePath, 1, Len(ArchivePath) - 6)

PathOf(url) == SubSeq(url, 26, Len(url))

YearLink(y) == ArchivePath \o str(y) \o <<"/">>

MonthLink(y, m) ==
    YearLink(y) \o <<"M", "M", "S", "D", "M", "_">> \o str(y) \o <<"_">>
        \o rjust2(str(m)) \o <<"/">>

DirLink(d) == PathOf(construct_yearmonth_url(2022, 1, d))

\* the link of an archive whose name holds raw as its table
TableLink(d, raw) ==
    DirLink(d) \o PUBLIC_DVD \o raw
        \o <<"_", "2", "0", "2", "2", "0", "1", "0", "1", "0", "0", "0", "0", ".", "z", "i", "p">>

DATA == <<"D", "A", "T", "A">>

P5MIN_ALL_DATA == <<"P", "5", "M", "I", "N", "_", "A", "L", "L", "_", "D", "A", "T", "A">>

PREDISP_ALL_DATA ==
    <<"P", "R", "E", "D", "I", "S", "P", "_", "A", "L", "L", "_", "D", "A", "T", "A">>

\* a subdirectory whose name does not end in DATA
CTL == <<"C", "T", "L">>

FAKE_DATA == <<"F", "A", "K", "E", "_", "D", "A", "T", "A">>

SILLY_TABLE == <<"S", "I", "L", "L", "Y", "_", "T", "A", "B", "L", "E">>

SiteDirs == {DATA, P5MIN_ALL_DATA, PREDISP_ALL_DATA, CTL}

MonthLinkPool == {ArchivePath, MonthLink(2022, 1), MonthLink(2022, 8)}

TableLinkPool(d) ==
    {DirLink(d), TableLink(d, <<"A", "B">>), TableLink(d, <<"_", "A", "B">>),
     TableLink(d, <<"A", "_", "B">>)}

BaseSite ==
    [root |-> <<ParentOfRoot, YearLink(2021), YearLink(2022)>>,
     year |-> [y \in {2021, 2022} |->
                 IF y = 2021 THEN <<ArchivePath, MonthLink(2021, 12)>>
                 ELSE <<ArchivePath, MonthLink(2022, 1)>>],
     month |-> <<YearLink(2022), DirLink(CTL), DirLink(DATA), DirLink(P5MIN_ALL_DATA),
                 DirLink(PREDISP_ALL_DATA)>>,
     dir |-> [d \in SiteDirs |->
                <<DirLink(d), TableLink(d, <<"A", "_", "B">>),
                  TableLink(d, <<"A", "B">>)>>],
     length |-> 1000]

\* the archive after a month was published and a table replaced
LaterSite ==
    [BaseSite EXCEPT
        !.year[2022] = <<ArchivePath, MonthLink(2022, 1), MonthLink(2022, 8)>>,
        !.dir[DATA] = <<DirLink(DATA), TableLink(DATA, <<"A", "B">>)>>,
        !.length = 2000]

Snapshots == {BaseSite, LaterSite}

GeneratedSites ==
    {[BaseSite EXCEPT !.year[2022] = p] : p \in SeqsUpTo(MonthLinkPool, MaxLinks)}
    \cup {[BaseSite EXCEPT !.dir[DATA] = p] : p \in SeqsUpTo(TableLinkPool(DATA), MaxLinks)}

\* the remote archive changes
RemoteChange ==
    /\ changes < MaxChanges
    /\ site' \in Snapshots \ {site}
    /\ changes' = changes + 1
    /\ UNCHANGED <<ymCache, atCache, nsCache, call, first>>
    /\ UNCHANGED <<retryVars, dlVars>>

CatalogKeys == {<<2022, 1, DATA>>, <<2022, 1, FAKE_DATA>>}

CacheKeys == {<<2022, 1, DATA>>, <<2022, 1, P5MIN_ALL_DATA>>}

SizeKeys == {<<2022, 1, DATA>>}

InitCaches ==
    /\ ymCache = EmptyCache
    /\ atCache = EmptyCache
    /\ nsCache = EmptyCache
    /\ call = NoCall
    /\ first = EmptyCache
    /\ changes = 0

(***************************************************************************)
(* get_and_unzip_table_csv                                                 *)
(***************************************************************************)
\* match(".*DATA/(.*).zip", url)
match_zip(url) ==
    LET P == <<"D", "A", "T", "A", "/">>
        J(i) == {j \in (i + Len(P))..(Len(url) - 4) :
                    StartsAt(url, j + 2, <<"z", "i", "p">>)}
        I == {i \in 0..Len(url) : StartsAt(url, i + 1, P) /\ J(i) # {}}
    IN  IF I = {} THEN NoMatch
        ELSE Matched(SubSeq(url, Max(I) + Len(P) + 1, Max(J(Max(I)))))

\* match("(.*).[cC][sS][vV]", name)
match_csv(name) ==
    LET J == {j \in 0..(Len(name) - 4) :
                /\ name[j + 2] \in {"c", "C"}
                /\ name[j + 3] \in {"s", "S"}
                /\ name[j + 4] \in {"v", "V"}}
    IN  IF J = {} THEN NoMatch ELSE Matched(SubSeq(name, 1, Max(J)))

\* the condition under which the archive is extracted
ContentsExpected(namelist, url) ==
    /\ Len(namelist) = 1
    /\ match_zip(url).matched
    /\ match_csv(namelist[Len(namelist)]).matched
    /\ match_csv(namelist[Len(namelist)]).group = match_zip(url).group

AnyTableListed(table, available_tables) == TRUE

\* table in available_tables
TableListed(table, available_tables) == table \in Range(available_tables)

ArchiveKept(fs, file_name) == fs

\* Path(file_path).unlink()
Unlink(fs, file_name) == fs \ {file_name}

NoArgs == [year |-> 0, month |-> 0, data_dir |-> <<>>, table |-> <<>>]

NoArchive == [kind |-> "none", entries |-> <<>>]

NoException == [exc |-> "", why |-> "", logged |-> FALSE]

Raised(exc, why) == [exc |-> exc, why |-> why, logged |-> FALSE]

Url == construct_table_url(dargs.year, dargs.month, dargs.data_dir, dargs.table)

\* file_name = Path(url).name
FileName == PathName(Url)

DlArgs ==
    [year : {1999, 2022}, month : {1},
     data_dir : SiteDirs \cup {FAKE_DATA},
     table : {<<"A", "_", "B">>, SILLY_TABLE}]

\* the name the archive of a table of January 2022 has on the server, without .zip
ServedStem(a) ==
    PUBLIC_DVD \o a.table \o <<"_">>
        \o <<"2", "0", "2", "2", "0", "1", "0", "1", "0", "0", "0", "0">>

\* entry names of the archives the server may send for the call's table
EntryPool(a) ==
    {ServedStem(a) \o <<".", "C", "S", "V">>,
     ServedStem(a) \o <<".", "c", "s", "v">>,
     ServedStem(a) \o <<".", "C", "S", "V", "X">>,
     ServedStem(a) \o <<"_", "C", "S", "V">>,
     ServedStem(a),
     <<"O", "T", "H", "E", "R", ".", "C", "S", "V">>}

\* an archive: not a zip file at all, a zip file with an entry that fails
\* its integrity check, or a well-formed zip file
Archives(a) ==
    [kind : {"not_zip", "corrupt", "ok"}, entries : SeqsUpTo(EntryPool(a), MaxEntries)]

NOTES == <<"n", "o", "t", "e", "s">>

InitDownload ==
    /\ dpc = "idle"
    /\ dargs = NoArgs
    /\ archive = NoArchive
    /\ dirExists0 \in BOOLEAN
    /\ files0 \in (IF dirExists0 THEN {{}, {NOTES}} ELSE {{}})
    /\ dirExists = dirExists0
    /\ files = files0
    /\ getIssued = FALSE
    /\ extracted = {}
    /\ outcome = NoException

\* get_and_unzip_table_csv(year, month, data_dir, table, cache) is called
Call ==
    /\ dpc = "idle"
    /\ dargs' \in DlArgs
    /\ dpc' = "validate"
    /\ UNCHANGED <<archive, dirExists, files, dirExists0, files0, getIssued,
                   extracted, outcome>>
    /\ UNCHANGED catVars
    /\ UNCHANGED retryVars

\* available_tables = get_available_tables(year, month, data_dir)
\* if table not in available_tables: raise ValueError
Validate ==
    /\ dpc = "validate"
    /\ \E o \in AT_Eval(site, ymCache, atCache,
                        <<dargs.year, dargs.month, dargs.data_dir>>) :
          /\ ymCache' = o.ymc
          /\ atCache' = o.atc
          /\ first' = Remember("get_available_tables",
                                <<dargs.year, dargs.month, dargs.data_dir>>, o, o.ymc)
          /\ IF o.raised # ""
                THEN dpc' = "done" /\ outcome' = Raised("ValueError", o.raised)
                ELSE IF ~TableListed(dargs.table, o.result)
                THEN dpc' = "done" /\ outcome' = Raised("ValueError", "table")
                ELSE dpc' = "download" /\ outcome' = outcome
    /\ UNCHANGED <<dargs, archive, dirExists, files, dirExists0, files0, getIssued,
                   extracted>>
    /\ UNCHANGED <<site, nsCache, call, changes>>
    /\ UNCHANGED retryVars

\* cache_path.mkdir(parents=True); _session.get(url, stream=True);
\* resp.raise_for_status(); shutil.copyfileobj(raw, fout)
Download ==
    /\ dpc = "download"
    /\ dirExists' = TRUE
    /\ getIssued' = TRUE
    /\ \/ /\ dpc' = "done"
          /\ outcome' = Raised("HTTPError", "status")
          /\ UNCHANGED <<archive, files>>
       \/ /\ archive' \in Archives(dargs)
          /\ files' = files \cup {FileName}
          /\ dpc' = "unzip"
          /\ UNCHANGED outcome
    /\ UNCHANGED <<dargs, dirExists0, files0, extracted>>
    /\ UNCHANGED catVars
    /\ UNCHANGED retryVars

\* z = ZipFile(file_path) and the rest of the function
Unzip ==
    /\ dpc = "unzip"
    /\ dpc' = "done"
    /\ IF archive.kind = "not_zip"
       THEN /\ outcome' = Raised("BadZipFile", "open")
            /\ UNCHANGED <<files, extracted>>
       ELSE IF ~ContentsExpected(archive.entries, Url)
       THEN /\ outcome' = Raised("ValueError", "contents")
            /\ UNCHANGED <<files, extracted>>
       ELSE IF archive.kind = "ok"
       THEN /\ extracted' = Range(archive.entries)
            /\ files' = Unlink(files \cup extracted', FileName)
            /\ UNCHANGED outcome
       ELSE \* extractall raises BadZipFile, before or after it wrote the entry
            /\ extracted' \in {{}, Range(archive.entries)}
            /\ files' = Unlink(files \cup extracted', FileName)
            /\ outcome' = [outcome EXCEPT !.logged = TRUE]
    /\ UNCHANGED <<dargs, archive, dirExists, dirExists0, files0, getIssued>>
    /\ UNCHANGED catVars
    /\ UNCHANGED retryVars

(***************************************************************************)
(* The specifications                                                      *)
(***************************************************************************)
Idle == InitRetry /\ InitCaches /\ InitDownload

\* one call of _rerequest_to_obtain_soup; a step that is enabled is taken
InitR == Idle /\ site = BaseSite /\ dirExists0 = FALSE

NextR == FirstRequest \/ LoopTest \/ Rerequest \/ Sleep \/ ReturnSoup

SpecRetry == InitR /\ [][NextR]_vars /\ WF_vars(NextR)

\* the catalog functions, called in any order on a generated site
InitC == Idle /\ site \in GeneratedSites /\ dirExists0 = FALSE

NextC ==
    \/ GetYearsAndMonths
    \/ \E key \in CatalogKeys : GetAvailableTables(key)

SpecCatalog == InitC /\ [][NextC]_vars

\* the catalog functions, called in any order while the remote archive changes
InitM == Idle /\ site \in Snapshots /\ dirExists0 = FALSE

NextM ==
    \/ GetYearsAndMonths
    \/ \E key \in CacheKeys : GetAvailableTables(key)
    \/ \E key \in SizeKeys : GetTableNamesAndSizes(key)
    \/ RemoteChange

SpecCache == InitM /\ [][NextM]_vars

\* one call of get_and_unzip_table_csv in a fresh process
InitD == Idle /\ site = BaseSite

NextD == Call \/ Validate \/ Download \/ Unzip

Spec == InitD /\ [][NextD]_vars

(***************************************************************************)
(* The claims                                                              *)
(***************************************************************************)
CSV == <<".", "C", "S", "V">>

\* ".csv" in every letter case
CsvExtensions ==
    {<<".", c, s, v>> : c \in {"c", "C"}, s \in {"s", "S"}, v \in {"v", "V"}}

\* the downloaded archive's own stem: its file name without ".zip"
ArchiveStem == SubSeq(FileName, 1, Len(FileName) - 4)

\* the spec's invariant of an archive: exactly one entry, whose name with a
\* trailing .csv extension of any letter case removed is the archive's stem
ArchiveInvariant ==
    /\ Len(archive.entries) = 1
    /\ \E ext \in CsvExtensions : archive.entries[1] = ArchiveStem \o ext

Opened == archive.kind \in {"ok", "corrupt"}

\* C1: for subdir DATA, PREDISP_ALL_DATA or P5MIN_ALL_DATA, an empty destination
\* and a well-formed archive whose single entry is
\* PUBLIC_DVD_<table>_<year><month>010000.CSV, the call returns, the destination
\* holds that file and nothing else, and the .zip file is gone.
C1_OneCsvAndNoArchive ==
    (/\ dpc = "done"
     /\ dargs.data_dir \in {DATA, PREDISP_ALL_DATA, P5MIN_ALL_DATA}
     /\ files0 = {}
     /\ archive.kind = "ok"
     /\ archive.entries = <<ServedStem(dargs) \o CSV>>)
    => (/\ outcome = NoException
        /\ files = {ServedStem(dargs) \o CSV}
        /\ FileName \notin files)

C1_Witness ==
    /\ dpc = "done"
    /\ dargs.data_dir = P5MIN_ALL_DATA
    /\ dirExists0
    /\ files0 = {}
    /\ archive.kind = "ok"
    /\ archive.entries = <<ServedStem(dargs) \o CSV>>
    /\ files = {ServedStem(dargs) \o CSV}

\* C2: an archive whose entries violate the invariant makes the call fail with
\* the unexpected-contents error, extracts nothing and leaves the archive.
C2_BadContentsRejected ==
    (dpc = "done" /\ Opened /\ ~ArchiveInvariant)
    => (/\ outcome = Raised("ValueError", "contents")
        /\ extracted = {}
        /\ FileName \in files)

\* C3: when extraction fails with BadZipFile, the invalid entry is reported and
\* the downloaded .zip file is still there after the call.
C3_CorruptArchiveKept ==
    (dpc = "done" /\ archive.kind = "corrupt" /\ outcome.logged)
    => FileName \in files

\* name is what the table pattern captures from link, leading underscores
\* stripped, for some way of matching .*/PUBLIC_DVD_([A-Z_0-9]*)_[0-9]*.zip
CapturedFrom(link, name) ==
    \E a \in 0..Len(link) :
        /\ StartsAt(link, a + 1, <<"/">> \o PUBLIC_DVD)
        /\ \E b \in (a + 12)..(Len(link) - 1) :
              /\ \A k \in (a + 13)..b : link[k] \in NameChars
              /\ link[b + 1] = "_"
              /\ name = lstrip(SubSeq(link, a + 13, b))
              /\ \E c \in (b + 1)..Len(link) :
                    /\ \A k \in (b + 2)..c : link[k] \in Digits
                    /\ StartsAt(link, c + 2, <<"z", "i", "p">>)

\* the link names month m: four digits, an underscore and the two digits of m
NamesMonth(link, m) ==
    \E i \in 0..(Len(link) - 7) :
        /\ AllIn(link, i + 1, i + 4, Digits)
        /\ link[i + 5] = "_"
        /\ AllIn(link, i + 6, i + 7, Digits)
        /\ m = 10 * DigitVal(link[i + 6]) + DigitVal(link[i + 7])

\* the link names year y: four digits that read y
NamesYear(link, y) ==
    \E i \in 0..(Len(link) - 4) :
        AllIn(link, i + 1, i + 4, Digits) /\ y = int(SubSeq(link, i + 1, i + 4))

\* the three validations, stated of the site
AllValid ==
    /\ \E k \in DOMAIN site.root : NamesYear(site.root[k], dargs.year)
    /\ dargs.year \in DOMAIN site.year
    /\ \E k \in DOMAIN site.year[dargs.year] :
          NamesMonth(site.year[dargs.year][k], dargs.month)
    /\ \E k \in DOMAIN site.month : PathName(site.month[k]) = dargs.data_dir
    /\ dargs.data_dir \in DOMAIN site.dir
    /\ \E k \in DOMAIN site.dir[dargs.data_dir] :
          CapturedFrom(site.dir[dargs.data_dir][k], dargs.table)

FilesystemUnchanged == dirExists = dirExists0 /\ files = files0

\* C4: the directory is created, a file written or the archive requested only
\* after the period, the subdirectory and the table were all found valid; if one
\* is not, the call ends with a ValueError, the filesystem is unchanged and no
\* download was requested.
C4_ValidatedBeforeEffects ==
    dpc # "idle" =>
        /\ (~FilesystemUnchanged \/ getIssued) => AllValid
        /\ (dpc # "validate" /\ ~AllValid)
              => (/\ dpc = "done"
                  /\ outcome.exc = "ValueError"
                  /\ outcome.why \in {"period", "data_dir", "table"}
                  /\ FilesystemUnchanged
                  /\ ~getIssued)

C4_Witness ==
    /\ dpc = "done"
    /\ outcome = Raised("ValueError", "table")
    /\ dargs.data_dir = DATA
    /\ ~dirExists
    /\ ~getIssued

Requests == {i \in DOMAIN log : log[i].ev = "request"}

C5_Safety ==
    \* no request is issued after a 200
    /\ \A i \in Requests : log[i].n = OK => \A j \in Requests : j <= i
    \* the call returns only on a 200, with the document of that response
    /\ rpc \in {"parse", "done"} => r.status = OK /\ log[Len(log)] = RequestEvent(r)
    /\ rpc = "done" => soup = BeautifulSoup(r.content)
    \* it never gives up: until it has returned there is a next step
    /\ (rpc # "done" /\ Len(log) < MaxLog) => ENABLED NextR

\* C5: _rerequest_to_obtain_soup returns only on a 200 response, with the
\* document parsed from it, issues no request after it, never gives up, and
\* once a request was answered 200 the call returns.
C5_ReturnsExactlyOnOk ==
    /\ []C5_Safety
    /\ (rpc # "start" /\ r.status = OK) ~> (rpc = "done")

C5_Witness ==
    /\ rpc = "done"
    /\ Cardinality(Requests) >= 4
    /\ soup = BeautifulSoup("page2")

\* C6: get_available_tables returns a list in ascending order without
\* duplicates, whatever links the listing holds, and every name in it was
\* captured from a link of the listing.
C6_SortedUniqueCaptured ==
    (call.fn = "get_available_tables" /\ call.raised = "")
    => LET res == call.result
           listing == site.dir[call.key[3]]
       IN  /\ \A i, j \in DOMAIN res : i < j => StrLess(res[i], res[j])
           /\ \A i \in DOMAIN res :
                 \E k \in DOMAIN listing : CapturedFrom(listing[k], res[i])

C6_Witness ==
    /\ call.fn = "get_available_tables"
    /\ call.raised = ""
    /\ Len(call.result) = 2
    /\ Len(table_names_of(site.dir[DATA])) = 3

\* C7 as stated: the months of every year are in ascending order without
\* duplicates.
C7_MonthsSorted ==
    call.fn = "get_years_and_months"
    => \A y \in DOMAIN call.result :
          \A i, j \in DOMAIN call.result[y] :
              i < j => call.result[y][i] < call.result[y][j]

\* C7 as amended: the months of every year hold no duplicates and are exactly
\* the months that the links of the year's index page name; their order is
\* not promised.
C7_MonthsUnique ==
    call.fn = "get_years_and_months"
    => \A y \in DOMAIN call.result :
          LET res == call.result[y]
              page == site.year[y]
          IN  /\ \A i, j \in DOMAIN res : res[i] = res[j] => i = j
              /\ \A i \in DOMAIN res : \E k \in DOMAIN page : NamesMonth(page[k], res[i])
              /\ \A k \in DOMAIN page : \A m \in 0..99 :
                    NamesMonth(page[k], m) => \E i \in DOMAIN res : res[i] = m

C7_Witness ==
    /\ call.fn = "get_years_and_months"
    /\ Len(months_of(site.year[2022])) = 3
    /\ call.result[2022] = <<8, 1>>

Sleeps == SelectSeq(log, LAMBDA e : e.ev = "sleep")

\* the waits are 100 ms, then double the one before, capped at 10 s
BackoffSchedule ==
    \A k \in DOMAIN Sleeps : Sleeps[k].n = Min(initial_wait * (2 ^ (k - 1)), max_wait)

\* C8: every non-200 response is followed by a wait before the next request,
\* and the waits are 100, 200, 400, ..., 6400, 10000, 10000, ... ms.
C8_SleepBetweenAttempts ==
    /\ \A i \in DOMAIN log :
          (i < Len(log) /\ log[i].ev = "request") => log[i + 1].ev = "sleep"
    /\ BackoffSchedule

\* C9: once a catalog function returned a result for an argument tuple, every
\* later call with that tuple returns that result and issues no request, also
\* after the remote archive changed, and the cache keeps the entry; a call with
\* a tuple not yet seen is computed from the archive as it is at the call.
C9_MemoizedForever ==
    /\ call.seen =>
          /\ call.raised = ""
          /\ call.fetches = 0
          /\ call.result = first[<<call.fn, call.key>>]
    /\ \A k \in DOMAIN first :
          LET cache == IF k[1] = "get_years_and_months" THEN ymCache
                       ELSE IF k[1] = "get_available_tables" THEN atCache
                       ELSE nsCache
          IN  k[2] \in DOMAIN cache /\ cache[k[2]] = first[k]
    /\ (call.fn = "get_available_tables" /\ ~call.seen /\ call.raised = ""
            /\ call.epoch = changes) =>
          /\ call.fetches >= 2
          /\ Range(call.result) = Range(table_names_of(site.dir[call.key[3]]))
    /\ (call.fn = "get_table_names_and_sizes" /\ ~call.seen /\ call.raised = ""
            /\ call.epoch = changes) =>
          /\ call.fetches >= 1
          /\ DOMAIN call.result = Range(table_names_of(site.dir[call.key[3]]))
          /\ \A n \in DOMAIN call.result : call.result[n] = site.length
    /\ (call.fn = "get_years_and_months" /\ ~call.seen /\ call.epoch = changes) =>
          /\ call.fetches >= 1
          /\ call.result \in years_and_months(site)

C9_Witness ==
    /\ call.fn = "get_available_tables"
    /\ call.seen
    /\ changes > 0
    /\ Range(call.result) # Range(table_names_of(site.dir[call.key[3]]))

\* C10: whatever the subdirectory, a well-formed archive with the single entry
\* <archive stem>.csv, in any letter case of the extension, passes the check of
\* its contents, is extracted and is then deleted.
C10_AnySubdirectory ==
    (dpc = "done" /\ archive.kind = "ok" /\ ArchiveInvariant)
    => (/\ outcome = NoException
        /\ extracted = {archive.entries[1]}
        /\ FileName \notin files)

====
